---- MODULE Spec2Model ----
(***************************************************************************)
(* Model of vspeech/recording.py: the energy-based segmentation generator  *)
(* recording_task_loop and the pausable, cancellable recording_worker      *)
(* that drives it and publishes utterances to out_queue.                   *)
(*                                                                         *)
(* Audio is modelled chunk by chunk.  One element of a frames sequence is  *)
(* one chunk returned by stream.read(config.chunk): config.chunk samples   *)
(* of magnitude amp, tagged with the ordinal of the read that produced it, *)
(* so that the origin of every byte of an utterance can be traced.         *)
(* Times are in milliseconds (record_interval_sec = 0.1 is 100).           *)
(***************************************************************************)
EXTENDS Integers, Sequences, FiniteSets, TLC

\* ------------------------------------------------------------------ bounds
\* Number of chunks the device delivers in one behaviour of the segmentation
\* specifications SegSpec and LiveSpec.
MaxReads == 8

\* Number of chunks the device delivers in one behaviour of the worker
\* specification Spec.
MaxWorkerReads == 6

\* The device stops a stream of its own accord only in the first
\* MaxSessions - 1 sessions of a behaviour (pauses are not limited).
MaxSessions == 2

\* Sample magnitudes a chunk can carry.  For 16-bit samples: digital silence
\* and a voice level that is above -40 dBFS on its own but below it when
\* averaged with a chunk of silence.  For 8-bit samples: digital silence and
\* negative full scale (every sample -128), whose rms is max_possible_val,
\* that is exactly 0 dBFS.
Amps(sample_width) == IF sample_width = 1 THEN {0, 128} ELSE {0, 400}

\* ------------------------------------------------------------ configuration
\* RecordingConfig values (vspeech.config is not part of the sources; the
\* fields are the ones recording.py reads).  out_maxsize is the capacity of
\* context.sender_queue, 0 meaning unbounded as in asyncio.Queue.
E2EConfig ==
    [rate |-> 16000, chunk |-> 1600, record_interval_ms |-> 100,
     max_recording_ms |-> 5000, silence_threshold |-> -40,
     sample_width |-> 2, out_maxsize |-> 0]

ShortCapConfig ==
    [rate |-> 16000, chunk |-> 8000, record_interval_ms |-> 500,
     max_recording_ms |-> 1500, silence_threshold |-> -40,
     sample_width |-> 1, out_maxsize |-> 0]

HalfChunkConfig ==
    [rate |-> 16000, chunk |-> 800, record_interval_ms |-> 100,
     max_recording_ms |-> 5000, silence_threshold |-> -40,
     sample_width |-> 2, out_maxsize |-> 0]

BoundedQueueConfig ==
    [rate |-> 16000, chunk |-> 8000, record_interval_ms |-> 500,
     max_recording_ms |-> 1500, silence_threshold |-> -40,
     sample_width |-> 1, out_maxsize |-> 1]

\* A threshold of 0 dBFS: the loudest interval there is, is exactly at the
\* threshold.
FullScaleConfig ==
    [rate |-> 16000, chunk |-> 8000, record_interval_ms |-> 500,
     max_recording_ms |-> 1500, silence_threshold |-> 0,
     sample_width |-> 1, out_maxsize |-> 0]

Configs == {E2EConfig, ShortCapConfig, HalfChunkConfig, BoundedQueueConfig,
            FullScaleConfig}

VARIABLES
    cfg,         \* context.config.recording
    resume,      \* context.resume (asyncio.Event): TRUE when set
    pc,          \* where recording_worker is suspended / how it ended
    cancel_req,  \* task.cancel() was called and not yet delivered
    active,      \* stream.is_active() of the current stream
    gen,         \* locals of the running recording_task_loop generator
    streams,     \* one entry per stream opened: counts of its read() calls
                 \* that returned and of its close() calls
    in_read,     \* one entry per stream opened: number of stream.read calls
                 \* executing on it in a to_thread worker thread
    out_queue,   \* out_queue contents, oldest first
    nread,       \* number of chunks read from the device so far
    trace,       \* history: one record per interval decision step
    cleared_mid  \* history: the gate was cleared while the utterance now in
                 \* speaking_frames was being built

vars == <<cfg, resume, pc, cancel_req, active, gen, streams, in_read,
          out_queue, nread, trace, cleared_mid>>

\* --------------------------------------------------------------- get_dbfs
RECURSIVE SumSq(_)
SumSq(frames) ==
    IF frames = <<>> THEN 0
    ELSE Head(frames).amp * Head(frames).amp + SumSq(Tail(frames))

\* Largest sample magnitude in frames.
Peak(frames) ==
    CHOOSE m \in {frames[i].amp : i \in DOMAIN frames} :
        \A i \in DOMAIN frames : frames[i].amp <= m

\* audioop.rms: floor(sqrt(sum of squares / number of samples)); every chunk
\* holds the same number of samples, so the chunk size cancels.  The root of
\* a mean of squares is never above the largest magnitude.
Rms(frames) ==
    IF frames = <<>> THEN 0
    ELSE LET mean == SumSq(frames) \div Len(frames)
         IN  CHOOSE r \in 0..Peak(frames) :
                 r * r <= mean /\ (r + 1) * (r + 1) > mean

RECURSIVE Pow(_, _)
Pow(b, e) == IF e = 0 THEN 1 ELSE b * Pow(b, e - 1)

\* get_dbfs returns -inf for rms = 0 and 20*log10(rms / max_possible_val)
\* otherwise; the value is kept as the argument of the logarithm.
get_dbfs(interval_frames, sample_width) ==
    LET rms == Rms(interval_frames)
        max_possible_val == Pow(2, sample_width * 8) \div 2
    IN [inf |-> rms = 0, num |-> rms, den |-> max_possible_val]

\* AboveThreshold with >= for > at line 80.
AboveThreshold_NonStrict(dbfs, silence_threshold) ==
    /\ ~dbfs.inf
    /\ dbfs.num * Pow(10, (0 - silence_threshold) \div 20) >= dbfs.den

\* approx_max_amp > config.silence_threshold, for a threshold of -20*d dBFS:
\* 20*log10(num/den) > -20*d  iff  num * 10^d > den.
AboveThreshold(dbfs, silence_threshold) ==
    /\ ~dbfs.inf
    /\ dbfs.num * Pow(10, (0 - silence_threshold) \div 20) > dbfs.den

\* ------------------------------------------------- recording_task_loop
\* Locals of the generator right after it is created (lines 68-73).
FreshGen ==
    [interval_frame_count |-> 0,
     interval_frames |-> <<>>,
     speaking_frames |-> <<>>,
     last_interval_frames |-> <<>>,
     total_speaking_seconds |-> 0,
     status |-> "waiting"]

\* Lines 76-77: one chunk is added to the interval being accumulated.
Accumulate(g, in_data, c) ==
    [g EXCEPT !.interval_frame_count = @ + c.chunk,
              !.interval_frames = @ \o in_data]

\* IntervalFull with the test of line 79 always true.
IntervalFull_Always(g, c) == TRUE

\* Line 79: interval_frame_count >= config.rate * config.record_interval_sec.
IntervalFull(g, c) ==
    g.interval_frame_count * 1000 >= c.rate * c.record_interval_ms

\* Line 80.
IsSpeaking(g, c) ==
    AboveThreshold(get_dbfs(g.interval_frames, c.sample_width),
                   c.silence_threshold)

\* CapExceeded comparing one interval too late.
CapExceeded_Late(c, total_speaking_seconds) ==
    c.max_recording_ms + c.record_interval_ms < total_speaking_seconds

\* Lines 88 and 94: config.max_recording_sec < total_speaking_seconds.
CapExceeded(c, total_speaking_seconds) ==
    c.max_recording_ms < total_speaking_seconds

\* Credit with line 86/92 dropped: the interval is credited, not appended.
Credit_NoAppend(g, c) ==
    [g EXCEPT !.total_speaking_seconds = @ + c.record_interval_ms]

\* Credit with line 87/93 dropped: the interval is appended, not credited.
Credit_NoSeconds(g, c) ==
    [g EXCEPT !.speaking_frames = @ \o g.interval_frames]

\* Credit with = for += at line 86/92: the interval replaces the buffer.
Credit_Replace(g, c) ==
    [g EXCEPT !.speaking_frames = g.interval_frames,
              !.total_speaking_seconds = @ + c.record_interval_ms]

\* Lines 86-87 and 92-93: the interval is appended and credited.
Credit(g, c) ==
    [g EXCEPT !.speaking_frames = @ \o g.interval_frames,
              !.total_speaking_seconds = @ + c.record_interval_ms]

\* AfterYield with line 99 dropped: the finalizing interval stays in
\* interval_frames and becomes the lookback at line 102.
AfterYield_KeepInterval(g) ==
    [g EXCEPT !.status = "waiting",
              !.speaking_frames = <<>>]

\* AfterYield going back to Speaking instead of Waiting at line 97.
AfterYield_StaySpeaking(g) ==
    [g EXCEPT !.status = "speaking",
              !.speaking_frames = <<>>,
              !.interval_frames = <<>>]

\* Lines 97-99: what the generator does when it is resumed after the yield.
AfterYield(g) ==
    [g EXCEPT !.status = "waiting",
              !.speaking_frames = <<>>,
              !.interval_frames = <<>>]

\* Lines 80-101: the decision taken on a full interval.  emit says that
\* line 96 yields; at_yield is the generator's state at that yield and g its
\* state once the if/elif chain is left.
Decision(g, c) ==
    LET speaking == IsSpeaking(g, c)
    IN  IF g.status = "waiting" /\ speaking
        THEN [emit |-> FALSE, speaking |-> speaking, at_yield |-> g,
              g |-> [g EXCEPT !.speaking_frames =
                                  @ \o g.last_interval_frames
                                    \o g.interval_frames,
                              !.status = "speaking"]]
        ELSE IF g.status = "speaking"
        THEN LET g1 == Credit(g, c)
             IN [emit |-> FALSE, speaking |-> speaking, at_yield |-> g,
                 g |-> IF ~speaking
                          \/ CapExceeded(c, g1.total_speaking_seconds)
                       THEN [g1 EXCEPT !.status = "stopped"]
                       ELSE g1]
        ELSE IF g.status = "stopped"
        THEN LET g1 == Credit(g, c)
             IN IF ~speaking \/ CapExceeded(c, g1.total_speaking_seconds)
                THEN [emit |-> TRUE, speaking |-> speaking, at_yield |-> g1,
                      g |-> AfterYield(g1)]
                ELSE [emit |-> FALSE, speaking |-> speaking, at_yield |-> g,
                      g |-> IF speaking THEN [g1 EXCEPT !.status = "speaking"]
                            ELSE g1]
        ELSE [emit |-> FALSE, speaking |-> speaking, at_yield |-> g,
              g |-> g]

\* EndInterval with line 103 dropped: the frame count is not reset.
EndInterval_KeepCount(g) ==
    [g EXCEPT !.last_interval_frames = g.interval_frames,
              !.interval_frames = <<>>]

\* Lines 102-104: the interval becomes the lookback; the accumulator is
\* cleared.
EndInterval(g) ==
    [g EXCEPT !.last_interval_frames = g.interval_frames,
              !.interval_frame_count = 0,
              !.interval_frames = <<>>]

\* Lines 76-104: one pass of the while body for the chunk in_data.
\*   full     a decision step was taken
\*   emit     the pass reaches the yield of line 96
\*   at_yield generator state while suspended at that yield
\*   g        generator state back at the loop test of line 74
LoopBody(g, in_data, c) ==
    LET a == Accumulate(g, in_data, c)
    IN  IF IntervalFull(a, c)
        THEN LET d == Decision(a, c)
             IN [full |-> TRUE, emit |-> d.emit, speaking |-> d.speaking,
                 acc |-> a, at_yield |-> d.at_yield, g |-> EndInterval(d.g)]
        ELSE [full |-> FALSE, emit |-> FALSE, speaking |-> FALSE,
              acc |-> a, at_yield |-> a, g |-> a]

\* ---------------------------------------------------- recording_worker
\* stream.close() on the stream of the current session (lines 134, 136).
CloseStream(ss) == [ss EXCEPT ![Len(ss)].closes = @ + 1]

\* stream.read(config.chunk) on the stream of the current session returned.
ReadStream(ss) == [ss EXCEPT ![Len(ss)].reads = @ + 1]

\* open_input_stream (line 109): a new stream, not yet closed.
OpenStream(ss) == Append(ss, [reads |-> 0, closes |-> 0])

\* Line 75, to_thread(stream.read, config.chunk): a worker thread starts
\* executing stream.read on the stream of the current session.
DispatchRead(ir) == [ir EXCEPT ![Len(ir)] = @ + 1]

\* The stream.read call executing in the worker thread returns or raises.
EndRead(ir) == [ir EXCEPT ![Len(ir)] = @ - 1]

\* Lines 109-112 and 74-75: the generator of a new session dispatches its
\* first read on the stream just opened.
FirstRead(ir) == DispatchRead(Append(ir, 0))

\* SessionGen keeping the lookback of the session before.
SessionGen_KeepLookback(old) ==
    [FreshGen EXCEPT !.last_interval_frames = old.last_interval_frames]

\* Line 112: every session runs a new generator; old is the generator of the
\* session before, which is dropped.
SessionGen(old) == FreshGen

\* put_nowait adding the item at the head of the queue.
put_nowait_Front(q, item) == <<item>> \o q

\* out_queue.put_nowait(item) on a queue with room (lines 120-131).
put_nowait(q, item) == Append(q, item)

\* out_queue.put_nowait raises QueueFull when a bounded queue is full.
QueueFull(q, c) == c.out_maxsize > 0 /\ Len(q) >= c.out_maxsize

\* History record of one decision step: the interval, what the generator
\* held before it, and what the step produced.  For a step that yields, gate
\* is the value of the gate at the yield and cleared tells whether the gate
\* was cleared while the utterance was being built.
TraceRec(session, r, fate) ==
    [session |-> session,
     gate |-> r.emit => resume,
     cleared |-> r.emit /\ cleared_mid,
     iv |-> r.acc.interval_frames,
     speaking |-> r.speaking,
     before |-> r.acc.status,
     lookback |-> r.acc.last_interval_frames,
     after |-> IF fate \in {"abandoned", "rejected"} THEN r.at_yield.status
               ELSE r.g.status,
     dur |-> IF r.emit THEN r.at_yield.total_speaking_seconds
             ELSE r.g.total_speaking_seconds,
     buf |-> IF r.emit THEN r.at_yield.speaking_frames
             ELSE r.g.speaking_frames,
     emit |-> r.emit,
     fate |-> fate]

Log(tr, session, r, fate) ==
    IF r.full THEN Append(tr, TraceRec(session, r, fate)) ELSE tr

Init ==
    /\ cfg \in Configs
    /\ resume = TRUE
    /\ pc = "reading"
    /\ cancel_req = FALSE
    /\ active = TRUE
    /\ gen = FreshGen
    /\ streams = OpenStream(<<>>)
    /\ in_read = FirstRead(<<>>)
    /\ out_queue = <<>>
    /\ nread = 0
    /\ trace = <<>>
    /\ cleared_mid = FALSE

\* Lines 136-138 reached with the gate clear: the stream is closed and the
\* worker blocks in context.resume.wait().
CloseAndWait ==
    /\ streams' = CloseStream(ReadStream(streams))
    /\ in_read' = EndRead(in_read)
    /\ pc' = "gate_wait"
    /\ UNCHANGED active

\* Lines 136-138 and 109-112 with the gate set: wait() returns at once and
\* the next session starts on a new stream with a new generator.
CloseAndReopen ==
    /\ streams' = OpenStream(CloseStream(ReadStream(streams)))
    /\ in_read' = FirstRead(EndRead(in_read))
    /\ gen' = SessionGen(gen)
    /\ active' = TRUE
    /\ pc' = "reading"

\* Line 117 with the gate never found clear.
Paused_Never == FALSE

\* Line 117 with the test inverted.
Paused_Inverted == resume

\* Line 117: not context.resume.is_set().
Paused == ~resume

\* The read dispatched at line 75 returns a chunk; the worker runs until it
\* is suspended again (next read, or the gate wait) or until it raises.
ReadChunk ==
    /\ pc = "reading"
    /\ ~cancel_req
    /\ \E amp \in Amps(cfg.sample_width) :
       \E r \in {LoopBody(gen, <<[id |-> nread + 1, amp |-> amp]>>, cfg)} :
         LET session == Len(streams)
         IN  /\ nread' = nread + 1
             /\ cleared_mid' = (cleared_mid /\ active
                                  /\ r.g.status \in {"speaking", "stopped"})
             /\ IF r.emit /\ Paused
                THEN \* lines 117-119: break, generator left at the yield
                     /\ gen' = r.at_yield
                     /\ trace' = Log(trace, session, r, "abandoned")
                     /\ CloseAndWait
                     /\ UNCHANGED out_queue
                ELSE IF r.emit /\ QueueFull(out_queue, cfg)
                THEN \* line 120 raises QueueFull: not caught by line 132
                     /\ gen' = r.at_yield
                     /\ trace' = Log(trace, session, r, "rejected")
                     /\ pc' = "failed"
                     /\ streams' = ReadStream(streams)
                     /\ in_read' = EndRead(in_read)
                     /\ UNCHANGED <<out_queue, active>>
                ELSE /\ out_queue' = IF r.emit
                                     THEN put_nowait(out_queue,
                                                 r.at_yield.speaking_frames)
                                     ELSE out_queue
                     /\ trace' = Log(trace, session, r,
                                     IF r.emit THEN "published" ELSE "none")
                     /\ IF active
                        THEN \* line 74 true: the next read is dispatched
                             /\ gen' = r.g
                             /\ pc' = "reading"
                             /\ streams' = ReadStream(streams)
                             /\ in_read' = DispatchRead(EndRead(in_read))
                             /\ UNCHANGED active
                        ELSE IF resume
                        THEN CloseAndReopen
                        ELSE /\ gen' = r.g
                             /\ CloseAndWait
    /\ UNCHANGED <<cfg, resume, cancel_req>>

\* stream.read raises (device error): the exception leaves the generator and
\* the worker; it is not a CancelledError, so line 134 is not run.
ReadFails ==
    /\ pc = "reading"
    /\ ~cancel_req
    /\ pc' = "failed"
    /\ in_read' = EndRead(in_read)
    /\ UNCHANGED <<cfg, resume, cancel_req, active, gen, streams, out_queue,
                   nread, trace, cleared_mid>>

\* The device stops the stream while a read is outstanding.
StreamStops ==
    /\ pc = "reading"
    /\ active
    /\ Len(streams) < MaxSessions
    /\ active' = FALSE
    /\ UNCHANGED <<cfg, resume, pc, cancel_req, gen, streams, in_read,
                   out_queue, nread, trace, cleared_mid>>

\* The controller clears the gate (context.resume.clear()).
Pause ==
    /\ pc \in {"reading", "gate_wait", "gate_woken"}
    /\ resume
    /\ resume' = FALSE
    /\ cleared_mid' = (cleared_mid
                       \/ (pc = "reading"
                           /\ gen.status \in {"speaking", "stopped"}))
    /\ UNCHANGED <<cfg, pc, cancel_req, active, gen, streams, in_read,
                   out_queue, nread, trace>>

\* The controller sets the gate (context.resume.set()); a worker blocked in
\* wait() is made runnable.
Resume ==
    /\ pc \in {"reading", "gate_wait", "gate_woken"}
    /\ ~resume
    /\ resume' = TRUE
    /\ pc' = IF pc = "gate_wait" THEN "gate_woken" ELSE pc
    /\ UNCHANGED <<cfg, cancel_req, active, gen, streams, in_read,
                   out_queue, nread, trace, cleared_mid>>

\* Line 138 returns; lines 109-112 and 74-75 start the next session.
Wake ==
    /\ pc = "gate_woken"
    /\ ~cancel_req
    /\ streams' = OpenStream(streams)
    /\ in_read' = FirstRead(in_read)
    /\ gen' = SessionGen(gen)
    /\ active' = TRUE
    /\ pc' = "reading"
    /\ cleared_mid' = FALSE
    /\ UNCHANGED <<cfg, resume, cancel_req, out_queue, nread, trace>>

\* task.cancel() while the worker is suspended.
Cancel ==
    /\ pc \in {"reading", "gate_wait", "gate_woken"}
    /\ ~cancel_req
    /\ cancel_req' = TRUE
    /\ UNCHANGED <<cfg, resume, pc, active, gen, streams, in_read,
                   out_queue, nread, trace, cleared_mid>>

\* CancelledError raised at line 75: lines 132-135.
CancelledInRead ==
    /\ cancel_req
    /\ pc = "reading"
    /\ streams' = CloseStream(streams)
    /\ pc' = "cancelled"
    /\ cancel_req' = FALSE
    /\ UNCHANGED <<cfg, resume, active, gen, in_read, out_queue, nread,
                   trace, cleared_mid>>

\* CancelledInWait closing the stream as line 134 does.
CancelledInWait_Close ==
    /\ cancel_req
    /\ pc \in {"gate_wait", "gate_woken"}
    /\ streams' = CloseStream(streams)
    /\ pc' = "cancelled"
    /\ cancel_req' = FALSE
    /\ UNCHANGED <<cfg, resume, active, gen, in_read, out_queue, nread,
                   trace, cleared_mid>>

\* CancelledError raised at line 138: lines 139-141.
CancelledInWait ==
    /\ cancel_req
    /\ pc \in {"gate_wait", "gate_woken"}
    /\ pc' = "cancelled"
    /\ cancel_req' = FALSE
    /\ UNCHANGED <<cfg, resume, active, gen, streams, in_read, out_queue,
                   nread, trace, cleared_mid>>

\* Cancelling the task does not stop the thread to_thread started: the
\* stream.read call keeps executing and ends on its own, before or after
\* CancelledError is raised at line 75; what it returns is discarded.
ThreadReadEnds ==
    /\ \/ pc = "reading" /\ cancel_req
       \/ pc = "cancelled"
    /\ in_read[Len(in_read)] > 0
    /\ in_read' = EndRead(in_read)
    /\ UNCHANGED <<cfg, resume, pc, cancel_req, active, gen, streams,
                   out_queue, nread, trace, cleared_mid>>

\* ReadChunk within the number of chunks of a behaviour of Spec.
WorkerRead == nread < MaxWorkerReads /\ ReadChunk

\* The worker with its whole environment: the device, the controller of the
\* gate, task cancellation.
Next ==
    \/ WorkerRead
    \/ ReadFails
    \/ StreamStops
    \/ Pause
    \/ Resume
    \/ Wake
    \/ Cancel
    \/ CancelledInRead
    \/ CancelledInWait
    \/ ThreadReadEnds

Spec == Init /\ [][Next]_vars

\* ReadChunk within the number of chunks of a behaviour of SegSpec.
SegRead == nread < MaxReads /\ ReadChunk

\* The segmentation on longer inputs: the worker is left alone (the gate
\* stays set, no cancellation, no device error, an unbounded queue), the
\* device delivers chunks and may stop a stream.
SegInit == Init /\ cfg.out_maxsize = 0

SegNext == SegRead \/ StreamStops

SegSpec == SegInit /\ [][SegNext]_vars

\* Configurations whose cap can be crossed within MaxReads chunks.
LiveInit == Init /\ cfg = ShortCapConfig

\* The device keeps delivering: a read dispatched to the thread at line 75
\* eventually returns and the worker task is eventually run.
LiveSpec == LiveInit /\ [][SegNext]_vars /\ WF_vars(SegRead)

\* ================================================================ claims
\* Decision steps of session s, oldest first.
SessionTrace(s) == SelectSeq(trace, LAMBDA r : r.session = s)

Sessions == 1..Len(streams)

\* Ordinals of the reads whose chunks are in frames.
Ids(frames) == {frames[i].id : i \in DOMAIN frames}

\* Number of samples in frames.
Samples(frames) == Len(frames) * cfg.chunk

\* Samples per interval: the first multiple of the chunk size that reaches
\* rate * record_interval_sec.
IntervalSamples ==
    LET target == (cfg.rate * cfg.record_interval_ms) \div 1000
    IN  ((target + cfg.chunk - 1) \div cfg.chunk) * cfg.chunk

\* Positions of the decision steps of st that yielded an utterance.
Emits(st) == {i \in DOMAIN st : st[i].emit}

\* The end-to-end configuration of the scenario of C2.
IsE2E ==
    /\ cfg.rate = 16000
    /\ cfg.record_interval_ms = 100
    /\ cfg.silence_threshold = -40
    /\ cfg.max_recording_ms = 5000
    /\ 1600 % cfg.chunk = 0

\* The first five intervals of session s are 3 loud ones then 2 quiet ones.
ThreeLoudTwoQuiet(st) ==
    /\ Len(st) >= 5
    /\ \A i \in 1..3 : st[i].speaking
    /\ \A i \in 4..5 : ~st[i].speaking

\* C2: with rate 16000, 0.1 s intervals, -40 dBFS and a 5 s cap, a fresh
\* session fed 3 loud then 2 quiet intervals yields exactly one utterance in
\* those five intervals, and it is 5 x 1600 samples long.
C2_EndToEnd ==
    IsE2E =>
      \A s \in Sessions :
        LET st == SessionTrace(s)
        IN  ThreeLoudTwoQuiet(st) =>
              /\ Emits(SubSeq(st, 1, 5)) = {5}
              /\ Samples(st[5].buf) = 5 * 1600

C2_Witness ==
    /\ IsE2E
    /\ \E s \in Sessions :
         LET st == SessionTrace(s)
         IN  /\ ThreeLoudTwoQuiet(st)
             /\ st[5].emit
             /\ st[5].fate = "published"
             /\ Samples(st[5].buf) = 8000

\* C4: no two utterances yielded by the generator contain a chunk of the
\* same read: every input interval is part of at most one utterance.
C4_NoOverlap ==
    \A i, j \in DOMAIN trace :
        (i < j /\ trace[i].emit /\ trace[j].emit)
            => Ids(trace[i].buf) \cap Ids(trace[j].buf) = {}

\* Two utterances of one session, the second starting at the interval right
\* after the one that finalized the first.
C4_Witness ==
    \E i, j \in DOMAIN trace :
        /\ trace[i].emit /\ trace[j].emit
        /\ trace[i].session = trace[j].session
        /\ i + 1 < j
        /\ trace[i + 1].before = "waiting"
        /\ trace[i + 1].after = "speaking"
        /\ \A k \in (i + 1)..(j - 1) : ~trace[k].emit

\* The frames of the intervals a..b of st, in input order.
RECURSIVE Flatten(_, _, _)
Flatten(st, a, b) ==
    IF a > b THEN <<>> ELSE st[a].iv \o Flatten(st, a + 1, b)

\* An utterance starts at step p of st: Waiting and a loud interval.
StartsAt(st, p) == st[p].before = "waiting" /\ st[p].speaking

\* Step q of st belongs to the utterance started at step p.
SameUtterance(st, p, q) ==
    /\ p <= q
    /\ StartsAt(st, p)
    /\ \A i \in p..(q - 1) : ~st[i].emit /\ st[i].after # "waiting"

\* Seconds (ms) credited to the utterance started at p once step q is done:
\* one interval for every interval appended after the first.
Credited(p, q) == (q - p) * cfg.record_interval_ms

\* C1: from Waiting, k >= 1 loud intervals then 2 quiet ones, the utterance
\* staying within the cap, yield exactly one utterance, at the second quiet
\* interval, whose buffer is the lookback followed by all k + 2 intervals.
C1_LoudThenTwoQuiet ==
    \A s \in Sessions :
      LET st == SessionTrace(s)
      IN  \A p \in DOMAIN st : \A k \in 1..Len(st) :
            ( /\ p + k + 1 <= Len(st)
              /\ st[p].before = "waiting"
              /\ \A i \in p..(p + k - 1) : st[i].speaking
              /\ ~st[p + k].speaking
              /\ ~st[p + k + 1].speaking
              /\ Credited(p, p + k + 1) <= cfg.max_recording_ms )
            => /\ Emits(st) \cap (p..(p + k + 1)) = {p + k + 1}
               /\ st[p + k + 1].buf
                    = st[p].lookback \o Flatten(st, p, p + k + 1)

\* C3: inside one utterance, k >= 1 loud intervals, one quiet interval and a
\* loud one again, the utterance staying within the cap: nothing is yielded
\* at these intervals, the state after the last is Speaking and the buffer
\* holds every interval of the utterance up to it, the dip included.
C3_DipRecovery ==
    \A s \in Sessions :
      LET st == SessionTrace(s)
      IN  \A p, a \in DOMAIN st : \A k \in 1..Len(st) :
            ( /\ a + k + 1 <= Len(st)
              /\ SameUtterance(st, p, a)
              /\ \A i \in a..(a + k - 1) : st[i].speaking
              /\ ~st[a + k].speaking
              /\ st[a + k + 1].speaking
              /\ Credited(p, a + k + 1) <= cfg.max_recording_ms )
            => /\ Emits(st) \cap (a..(a + k + 1)) = {}
               /\ st[a + k + 1].after = "speaking"
               /\ st[a + k + 1].buf
                    = st[p].lookback \o Flatten(st, p, a + k + 1)

\* C6 as claimed: when an utterance is yielded, the duration credited to it
\* exceeds max_recording_sec by at most one interval.
C6_OneIntervalSlack ==
    \A s \in Sessions :
      LET st == SessionTrace(s)
      IN  \A p, q \in DOMAIN st :
            (SameUtterance(st, p, q) /\ st[q].emit)
              => Credited(p, q)
                   <= cfg.max_recording_ms + cfg.record_interval_ms

\* C6 amended: when an utterance is yielded, the duration credited to it
\* exceeds max_recording_sec by at most two intervals (the interval that
\* crosses the cap and the Hangover interval after it).
C6_TwoIntervalSlack ==
    \A s \in Sessions :
      LET st == SessionTrace(s)
      IN  \A p, q \in DOMAIN st :
            (SameUtterance(st, p, q) /\ st[q].emit)
              => Credited(p, q)
                   <= cfg.max_recording_ms + 2 * cfg.record_interval_ms

\* An utterance cut by the cap alone, yielded two intervals over it.
C6_Witness ==
    \E s \in Sessions :
      LET st == SessionTrace(s)
      IN  \E p, q \in DOMAIN st :
            /\ SameUtterance(st, p, q)
            /\ st[q].emit
            /\ \A i \in p..q : st[i].speaking
            /\ Credited(p, q)
                 = cfg.max_recording_ms + 2 * cfg.record_interval_ms

\* The speaker never stops and nothing disturbs the worker: every interval
\* decided so far is loud, the stream is active, the gate is set, and the
\* worker is neither cancelled nor failed.
NeverStops ==
    /\ \A i \in DOMAIN trace : trace[i].speaking
    /\ active
    /\ resume
    /\ ~cancel_req
    /\ pc = "reading"

\* An utterance yielded from Hangover at the interval after the one at which
\* the speaking duration exceeded the cap and the machine left Speaking.
CapFinalized ==
    \E i \in DOMAIN trace :
        /\ i > 1
        /\ trace[i - 1].before = "speaking"
        /\ trace[i - 1].after = "stopped"
        /\ trace[i - 1].dur > cfg.max_recording_ms
        /\ trace[i].before = "stopped"
        /\ trace[i].emit

\* C5: if every interval is loud forever, the stream stays active and the
\* gate stays set, an utterance is eventually emitted: once the duration
\* exceeds the cap the machine enters Hangover and finalizes at the next
\* interval.
C5_CapForcesEmission == ([]NeverStops) => <>CapFinalized

C5_Witness ==
    /\ \A i \in DOMAIN trace : trace[i].speaking
    /\ CapFinalized
    /\ trace[Len(trace)].fate = "published"

\* The utterances now on out_queue.
Queued == {out_queue[k] : k \in DOMAIN out_queue}

\* C7 as claimed: an utterance during whose building the gate was cleared is
\* never published.
C7_ClearedNeverPublished ==
    \A i \in DOMAIN trace :
        (trace[i].emit /\ trace[i].cleared)
            => /\ trace[i].fate # "published"
               /\ trace[i].buf \notin Queued

\* C7 amended: an utterance during whose building the gate was cleared, and
\* that is finalized while the gate is still not set, is abandoned and never
\* published.
C7_ClearedAtYieldNeverPublished ==
    \A i \in DOMAIN trace :
        (trace[i].emit /\ trace[i].cleared /\ ~trace[i].gate)
            => /\ trace[i].fate = "abandoned"
               /\ trace[i].buf \notin Queued

\* An utterance abandoned at its yield after a clear of the gate during
\* Speaking or Hangover, with a later session that has published another.
C7_Witness ==
    \E i, j \in DOMAIN trace :
        /\ i < j
        /\ trace[i].emit /\ trace[i].cleared /\ ~trace[i].gate
        /\ trace[i].fate = "abandoned"
        /\ trace[j].fate = "published"

\* The stream of session s was closed exactly once.
ClosedOnce(s) == streams[s].closes = 1

\* C8: after an utterance is abandoned the stream is closed and the worker
\* stays blocked while the gate is clear; the session opened afterwards
\* starts from the generator's initial state, and its first decision step
\* sees Waiting, an empty lookback, and an interval made only of chunks read
\* in that session.
C8_FreshAfterPause ==
    /\ pc \in {"gate_wait", "gate_woken"} => ClosedOnce(Len(streams))
    /\ pc = "gate_wait" => ~resume
    /\ \A s \in Sessions :
         LET st == SessionTrace(s)
             prev == SessionTrace(s - 1)
         IN  ( /\ s > 1
               /\ prev # <<>>
               /\ prev[Len(prev)].fate = "abandoned" )
             => /\ ClosedOnce(s - 1)
                /\ (s = Len(streams) /\ streams[s].reads = 0 /\ pc = "reading")
                     => gen = FreshGen
                /\ st # <<>>
                     => /\ st[1].before = "waiting"
                        /\ st[1].lookback = <<>>
                        /\ Samples(st[1].iv) = IntervalSamples
                        /\ \A i \in DOMAIN prev :
                             Ids(prev[i].iv) \cap Ids(st[1].iv) = {}

\* A session opened after an abandonment has taken a decision step, the
\* abandoned generator having held a non-empty lookback.
C8_Witness ==
    \E s \in Sessions :
        LET st == SessionTrace(s)
            prev == SessionTrace(s - 1)
        IN  /\ s > 1
            /\ prev # <<>>
            /\ prev[Len(prev)].fate = "abandoned"
            /\ prev[Len(prev)].lookback # <<>>
            /\ st # <<>>
            /\ st[1].speaking

\* C9: when CancelledError has left recording_worker, from the device read
\* or from the gate wait, the stream of the current session has been closed
\* exactly once; and from the cancel request on the worker does nothing but
\* end cancelled: it reads no chunk, opens no stream, publishes nothing.
C9_CancelClosesOnce ==
    /\ [](pc = "cancelled" => ClosedOnce(Len(streams)))
    /\ [][cancel_req => /\ pc' \in {pc, "gate_woken", "cancelled"}
                        /\ nread' = nread
                        /\ Len(streams') = Len(streams)
                        /\ out_queue' = out_queue]_vars

\* Cancelled while blocked on the gate after an abandonment.
C9_Witness ==
    /\ pc = "cancelled"
    /\ trace # <<>>
    /\ trace[Len(trace)].fate = "abandoned"
    /\ trace[Len(trace)].session = Len(streams)
    /\ ClosedOnce(Len(streams))

\* C10: whenever the worker has stopped running a session (it is blocked on
\* the gate, or it has ended by cancellation or by an exception), every
\* stream it opened has been closed.
C10_AllStreamsClosed ==
    pc \in {"gate_wait", "gate_woken", "cancelled", "failed"}
        => \A s \in Sessions : streams[s].closes >= 1

\* C11: an utterance that out_queue refuses for lack of room is the only
\* thing lost: it is not put on the queue, and the worker has not ended with
\* an exception but keeps running.
C11_QueueFullNotFatal ==
    \A i \in DOMAIN trace :
        trace[i].fate = "rejected"
            => /\ trace[i].buf \notin Queued
               /\ pc # "failed"

\* The utterances of the decision steps of tr that were published, in the
\* order in which the generator finalized them.
RECURSIVE PublishedOf(_)
PublishedOf(tr) ==
    IF tr = <<>> THEN <<>>
    ELSE IF Head(tr).fate = "published"
         THEN <<Head(tr).buf>> \o PublishedOf(Tail(tr))
         ELSE PublishedOf(Tail(tr))

\* C12: out_queue holds the published utterances in the order in which the
\* generator finalized them, across sessions, pauses and resumes, and none of
\* them twice.
C12_FifoOnce ==
    /\ out_queue = PublishedOf(trace)
    /\ \A i, j \in DOMAIN out_queue : i # j => out_queue[i] # out_queue[j]

\* Two utterances published by two sessions, the gate having been cleared
\* and set again while the second was being built.
C12_Witness ==
    \E i, j \in DOMAIN trace :
        /\ i < j
        /\ trace[i].fate = "published"
        /\ trace[j].fate = "published"
        /\ trace[i].session < trace[j].session
        /\ trace[j].cleared
        /\ out_queue = <<trace[i].buf, trace[j].buf>>

\* C13: every utterance the generator yields is non-empty and holds, after
\* the lookback it started with, at least one full interval of audio.
C13_MinimumLength ==
    \A s \in Sessions :
      LET st == SessionTrace(s)
      IN  \A q \in DOMAIN st :
            st[q].emit =>
              /\ st[q].buf # <<>>
              /\ \E p \in DOMAIN st :
                   /\ SameUtterance(st, p, q)
                   /\ Len(st[q].buf) >= Len(st[p].lookback)
                   /\ SubSeq(st[q].buf, 1, Len(st[p].lookback))
                        = st[p].lookback
                   /\ Samples(st[q].buf)
                        >= Samples(st[p].lookback) + IntervalSamples

\* The shortest utterance there is, started with a non-empty lookback: one
\* loud interval, then the two quiet ones that finalize it.
C13_Witness ==
    \E s \in Sessions :
      LET st == SessionTrace(s)
      IN  \E p, q \in DOMAIN st :
            /\ SameUtterance(st, p, q)
            /\ st[q].emit
            /\ q = p + 2
            /\ st[p].lookback # <<>>
            /\ Samples(st[q].buf) = 4 * IntervalSamples

\* The step taken is a read whose chunk completed an interval, and the
\* generator ran the decision step to its end (line 104) in the session it
\* was in: the record added to trace is the one of that step.
StepEnded ==
    /\ Len(trace') = Len(trace) + 1
    /\ Len(streams') = Len(streams)
    /\ trace'[Len(trace')].fate \in {"none", "published"}

\* C14 as claimed: at the end of every decision step, the emitting one
\* included, the lookback is the interval just processed and the interval
\* accumulator and its frame count are cleared.
C14_LookbackIsLastInterval ==
    [][StepEnded =>
         /\ gen'.last_interval_frames = trace'[Len(trace')].iv
         /\ gen'.interval_frames = <<>>
         /\ gen'.interval_frame_count = 0]_vars

\* C14 amended: at the end of every decision step the interval accumulator
\* and its frame count are cleared, and the lookback is the interval just
\* processed unless the step emitted an utterance, in which case the
\* lookback is empty.
C14_LookbackUnlessEmitted ==
    [][StepEnded =>
         /\ gen'.last_interval_frames
              = IF trace'[Len(trace')].emit THEN <<>>
                ELSE trace'[Len(trace')].iv
         /\ gen'.interval_frames = <<>>
         /\ gen'.interval_frame_count = 0]_vars

\* The generator right after a step that emitted a published utterance:
\* back at the read, in Waiting, with nothing accumulated and no lookback.
C14_Witness ==
    /\ trace # <<>>
    /\ trace[Len(trace)].emit
    /\ trace[Len(trace)].fate = "published"
    /\ trace[Len(trace)].session = Len(streams)
    /\ pc = "reading"
    /\ gen.status = "waiting"
    /\ gen.interval_frame_count = 0
    /\ gen.interval_frames = <<>>
    /\ gen.last_interval_frames = <<>>

\* C15: the speaking duration belongs to the current utterance only: it is 0
\* whenever the generator is in Waiting, and 0 at the end of every decision
\* step that began in Waiting (the step that starts an utterance included),
\* for the first and for every later utterance of a session.
C15_DurationResetWithBuffer ==
    /\ gen.status = "waiting" => gen.total_speaking_seconds = 0
    /\ \A i \in DOMAIN trace :
           trace[i].before = "waiting" => trace[i].dur = 0

\* The generator ran the decision step of the record rec to its end; it did
\* not if the worker left it suspended at the yield (break, or an exception
\* of put_nowait).
Completed(rec) == rec.fate \in {"none", "published"}

\* C16: a decision step takes Waiting to Waiting or Speaking, Speaking to
\* Speaking or Hangover ("stopped"), Hangover to Waiting or Speaking and
\* nowhere else; an utterance is yielded only by a step that begins in
\* Hangover and ends in Waiting, the step before it having ended in
\* Hangover.
C16_TransitionTable ==
    \A s \in Sessions :
      LET st == SessionTrace(s)
      IN  \A i \in DOMAIN st :
            /\ st[i].before = "waiting"
                 => st[i].after \in {"waiting", "speaking"}
            /\ st[i].before = "speaking"
                 => st[i].after \in {"speaking", "stopped"}
            /\ (st[i].before = "stopped" /\ Completed(st[i]))
                 => st[i].after \in {"waiting", "speaking"}
            /\ st[i].before \in {"waiting", "speaking", "stopped"}
            /\ i > 1 => st[i].before = st[i - 1].after
            /\ st[i].emit
                 => /\ st[i].before = "stopped"
                    /\ Completed(st[i]) => st[i].after = "waiting"
                    /\ i > 1
                    /\ st[i - 1].before = "speaking"
                    /\ st[i - 1].after = "stopped"
            /\ (Completed(st[i]) /\ st[i].after = "waiting"
                  /\ st[i].before # "waiting")
                 => st[i].emit

\* A session that went through every transition of the table: a dip taken
\* back to Speaking from Hangover, then an utterance yielded from Hangover.
C16_Witness ==
    \E s \in Sessions :
      LET st == SessionTrace(s)
      IN  \E i, j \in DOMAIN st :
            /\ i < j
            /\ st[1].before = "waiting" /\ st[1].after = "waiting"
            /\ st[i].before = "stopped" /\ st[i].after = "speaking"
            /\ st[j].emit
            /\ st[j].before = "stopped" /\ st[j].after = "waiting"

\* The loudness get_dbfs computed for the interval of the record rec is
\* exactly config.silence_threshold.
AtThreshold(rec) ==
    LET dbfs == get_dbfs(rec.iv, cfg.sample_width)
    IN  /\ ~dbfs.inf
        /\ dbfs.num * Pow(10, (0 - cfg.silence_threshold) \div 20) = dbfs.den

\* C17: an interval whose loudness equals silence_threshold is not speaking
\* (from Waiting it starts nothing); a loud interval that brings the
\* speaking duration to exactly max_recording_sec neither moves Speaking to
\* Hangover nor finalizes from Hangover, while a duration above the cap does
\* both.  Stated of the decision step taken last: trace only grows, so
\* every record is the last one in the state its step leads to.
C17_StrictComparisons ==
    trace # <<>> =>
      LET rec == trace[Len(trace)]
      IN  /\ AtThreshold(rec)
               => /\ ~rec.speaking
                  /\ rec.before = "waiting" => rec.after = "waiting"
          /\ (rec.speaking /\ rec.before = "speaking")
               => (rec.after = "stopped"
                     <=> rec.dur > cfg.max_recording_ms)
          /\ (rec.speaking /\ rec.before = "stopped")
               => (rec.emit <=> rec.dur > cfg.max_recording_ms)
          /\ (rec.speaking /\ rec.dur = cfg.max_recording_ms
                /\ rec.before \in {"speaking", "stopped"})
               => /\ ~rec.emit
                  /\ rec.after = "speaking"

\* A loud interval met in Hangover that brings the speaking duration to
\* exactly the cap: nothing is yielded and the machine is back in Speaking.
C17_Witness ==
    \E i \in DOMAIN trace :
        /\ trace[i].speaking
        /\ trace[i].before = "stopped"
        /\ trace[i].dur = cfg.max_recording_ms
        /\ ~trace[i].emit
        /\ trace[i].after = "speaking"

\* A read returned a chunk that left the interval short: no decision step
\* was taken.
ShortChunk ==
    /\ nread' = nread + 1
    /\ Len(trace') = Len(trace)

\* C18: every decision step was taken on an accumulated frame count of at
\* least rate x record_interval_sec, and everything on out_queue was yielded
\* by a decision step; a chunk that leaves the interval short publishes
\* nothing and, while the session goes on, changes neither the status nor
\* the utterance buffer, the speaking duration or the lookback; what a
\* session had accumulated when its stream stopped is never published.
C18_FullIntervalsOnly ==
    /\ [](\A i \in DOMAIN trace :
            Samples(trace[i].iv) * 1000
                >= cfg.rate * cfg.record_interval_ms)
    /\ [](\A k \in DOMAIN out_queue : \E i \in DOMAIN trace :
            /\ trace[i].emit
            /\ trace[i].buf = out_queue[k])
    /\ [][ShortChunk =>
            /\ out_queue' = out_queue
            /\ Len(streams') = Len(streams) =>
                 /\ gen'.status = gen.status
                 /\ gen'.speaking_frames = gen.speaking_frames
                 /\ gen'.total_speaking_seconds = gen.total_speaking_seconds
                 /\ gen'.last_interval_frames = gen.last_interval_frames]_vars
    /\ [][Len(out_queue') > Len(out_queue) =>
            /\ Len(trace') = Len(trace) + 1
            /\ trace'[Len(trace')].emit
            /\ out_queue' = Append(out_queue, trace'[Len(trace')].buf)]_vars

\* A session whose stream stopped in the middle of an interval while an
\* utterance was being built: nothing of it was published.
C18_Witness ==
    \E s \in Sessions :
      LET st == SessionTrace(s)
      IN  /\ s < Len(streams)
          /\ Samples(<<1>>) < IntervalSamples
          /\ (streams[s].reads * cfg.chunk) % IntervalSamples # 0
          /\ st # <<>>
          /\ st[Len(st)].after = "speaking"
          /\ \A i \in DOMAIN st : ~st[i].emit
          /\ out_queue = <<>>

\* C19: an utterance is put on out_queue only while the gate is set: the
\* gate was set when the generator yielded it, and it is set before and
\* after the step that publishes it, no step of the controller coming
\* between the test of line 117 and the put_nowait of line 120.
C19_PublishedOnlyWhileSet ==
    /\ [](\A i \in DOMAIN trace :
            trace[i].fate = "published" => trace[i].gate)
    /\ [][out_queue' # out_queue => resume /\ resume']_vars

\* An utterance published although the gate was cleared while it was being
\* built (it was set again before the yield), the gate being clear again
\* now.
C19_Witness ==
    /\ ~resume
    /\ out_queue # <<>>
    /\ \E i \in DOMAIN trace :
         /\ trace[i].fate = "published"
         /\ trace[i].cleared
         /\ trace[i].gate

\* C20: a stream has one user at a time: at most one stream.read call is
\* executing on it in a worker thread, and whenever close() is called on a
\* stream no stream.read call is left executing on it, also when the close
\* is the one of the cancellation handler.
C20_SingleUser ==
    /\ [](\A s \in DOMAIN in_read : in_read[s] <= 1)
    /\ [][\A s \in DOMAIN streams :
            streams'[s].closes > streams[s].closes
                => in_read'[s] = 0]_vars

====
